---- MODULE Spec2Model ----
(***************************************************************************)
(* The score extrapolation of app/routes/$season/index.tsx.                *)
(*                                                                         *)
(* Units.  Timestamps are counted in hours since an epoch that falls on    *)
(* 00:00 UTC (the source counts milliseconds; every computation of the     *)
(* source except getUTCHours/setHours is homogeneous in the time unit).    *)
(* Scores are counted in units of which scoreUnit make a tenth: in tenths  *)
(* where the scores of the series carry one decimal digit, so that         *)
(* rounding to one decimal digit (toOneDigit) is rounding to an integer,   *)
(* and in hundredths where they carry two.                                 *)
(*                                                                         *)
(* Values.  null/undefined is NULL for numbers and index 0 for a reference *)
(* to an element of the series (a Dataset is identified by its position).  *)
(* A computed JavaScript number that may be NaN or +-Infinity is a record  *)
(* [fin, v]; a computed timestamp that may be fractional is a rational     *)
(* [n, d] with d > 0.                                                      *)
(***************************************************************************)
EXTENDS Integers, Sequences, FiniteSets, TLC

VARIABLES
    season,                \* [startDates, endDates, crossFactionSupport]
    region,                \* the region the functions are applied to
    data,                  \* the region's series of datasets [ts, score, faction]
    endOverride,           \* the caller's override of the season end, or NULL
    tz,                    \* hours the server's local time is ahead of UTC
    clock,                 \* the wall clock, what Date.now() returns next
    pc,                    \* which function is applied next
    firstRelevantDataset,  \* result of determineExtrapolationStart
    extrapolation,         \* result of calculateExtrapolation
    nowReads,              \* the three values Date.now() returned to calculateExtrapolation
    maybeDate,             \* the request's extrapolationEndDate query value
    endRead,               \* the value Date.now() returned to determineExtrapolationEnd, or NULL
    now,                   \* the loader's reading of the clock, or NULL before it
    enhancedSeason,        \* the loader's response: [data, extrapolation, initialZoom] by region
    zoomReads,             \* the two values Date.now() returned to calculateZoom
    week,                  \* [isFirstWeek, from, to] handed to calculateFactionDiffForWeek
    weekDiff,              \* result of calculateFactionDiffForWeek
    scoreUnit,             \* units of a score that make one tenth: 1, or 10 for scores of two decimal digits
    regionData,            \* what loadDataForRegion resolves to, by region
    tasks,                 \* the loader's region tasks: [pc, reads] by region
    response,              \* the loader's response, once it is built
    history,               \* the history handed to calculateOverallMinMax
    thresholds             \* [type, result] of calculateOverallMinMax

vars == <<season, region, data, endOverride, tz, clock, pc,
          firstRelevantDataset, extrapolation, nowReads,
          maybeDate, endRead, now, enhancedSeason, zoomReads, week, weekDiff,
          scoreUnit, regionData, tasks, response, history, thresholds>>

----------------------------------------------------------------------------
(* JavaScript values *)

NULL == 0 - 1

\* the number NaN, where a timestamp is expected
NaN == 0 - 2

\* truthiness of a number | null
Truthy(x) == x # NULL /\ x # NaN /\ x # 0

JsFin(v) == [fin |-> TRUE, v |-> v]
JsNaN == [fin |-> FALSE, v |-> 0]
JsInf(sign) == [fin |-> FALSE, v |-> sign]

Sign(x) == IF x > 0 THEN 1 ELSE IF x < 0 THEN 0 - 1 ELSE 0

Rat(n, d) == [n |-> n, d |-> d]
RatLess(a, b) == a.n * b.d < b.n * a.d
RatEq(a, b) == a.n * b.d = b.n * a.d

\* ToLength of the number a / b (b > 0): truncated, and 0 when negative
ToLength(a, b) == IF a <= 0 THEN 0 ELSE a \div b

----------------------------------------------------------------------------
(* Program constants *)

Regions == {"eu", "kr", "tw", "us"}

\* 7 * 24 * 60 * 60 * 1000 ms, in hours
oneWeekInMs == 7 * 24

\* the source writes one day as `oneWeekInMs / 7` and as `/ 1000 / 60 / 60 / 24`
oneDayInMs == oneWeekInMs \div 7

\* an observation without a faction tag
xFaction == ""

----------------------------------------------------------------------------
(* toOneDigit: Number.parseFloat(x.toFixed(1)) of the number num / den     *)
(* (den > 0) of score units: the nearest whole number of tenths, a tie      *)
(* going away from zero.                                                    *)

toOneDigit(num, den) ==
    LET tenth == den * scoreUnit
    IN IF num >= 0
       THEN scoreUnit * ((2 * num + tenth) \div (2 * tenth))
       ELSE 0 - scoreUnit * ((2 * (0 - num) + tenth) \div (2 * tenth))

----------------------------------------------------------------------------
(* determineExtrapolationStart: the position in data of the first dataset  *)
(* at or after seasonStart + 4 weeks; 0 is null.                           *)

\* Array.prototype.find over positions: the least of hits, 0 when there is none
FindFirst(hits) ==
    IF hits = {} THEN 0 ELSE CHOOSE i \in hits : \A j \in hits : i <= j

\* [...data].reverse().find over positions: the greatest of hits, 0 when there is none
FindLast(hits) ==
    IF hits = {} THEN 0 ELSE CHOOSE i \in hits : \A j \in hits : i >= j

\* variant: only a dataset after the end of the fourth week qualifies
determineExtrapolationStartStrict(d, s, r) ==
    LET seasonStart == s.startDates[r]
    IN IF ~Truthy(seasonStart)
       THEN 0
       ELSE FindFirst({i \in 1..Len(d) : d[i].ts > seasonStart + 4 * oneWeekInMs})

\* variant: the most recent qualifying dataset instead of the first
determineExtrapolationStartLast(d, s, r) ==
    LET seasonStart == s.startDates[r]
        hits == {i \in 1..Len(d) : d[i].ts >= seasonStart + 4 * oneWeekInMs}
    IN IF ~Truthy(seasonStart) \/ hits = {}
       THEN 0
       ELSE CHOOSE i \in hits : \A j \in hits : i >= j

determineExtrapolationStart(d, s, r) ==
    LET seasonStart == s.startDates[r]
    IN IF ~Truthy(seasonStart)
       THEN 0
       ELSE FindFirst({i \in 1..Len(d) : d[i].ts >= seasonStart + 4 * oneWeekInMs})

----------------------------------------------------------------------------
(* calculateFactionDiffForWeek.  thisWeeksData, horde and alliance are     *)
(* sequences of positions in data, so that `startMatch === data[0]` is a   *)
(* comparison of positions.                                                *)

\* the positions of d, in order
Positions(d) == [i \in 1..Len(d) |-> i]

First(s) == IF Len(s) = 0 THEN 0 ELSE s[1]
Last(s) == IF Len(s) = 0 THEN 0 ELSE s[Len(s)]

\* variant: a dataset at the end of the week belongs to the next week only
inThisWeekUpToEnd(ts, from, to) == ts >= from /\ ts < to

\* lines 977-979: the filter of the week's datasets
inThisWeek(ts, from, to) == ts >= from /\ ts <= to

\* variant: the start is compared with the first dataset by its score
FactionDiffByValue(d, isFirstWeek, endMatch, startMatch) ==
    IF endMatch # 0 /\ startMatch # 0
    THEN d[endMatch].score
         - (IF isFirstWeek /\ d[startMatch].score = d[1].score
            THEN 0
            ELSE d[startMatch].score)
    ELSE 0

FactionDiff(d, isFirstWeek, endMatch, startMatch) ==
    IF endMatch # 0 /\ startMatch # 0
    THEN d[endMatch].score
         - (IF isFirstWeek /\ startMatch = 1 THEN 0 ELSE d[startMatch].score)
    ELSE 0

\* variant: without cross-faction support the untagged datasets still give the
\* combined diff
calculateFactionDiffForWeekUntaggedInNone(d, crossFactionSupport, isFirstWeek, from, to) ==
    LET hasCompleteXFactionSupport == crossFactionSupport = "complete"
        thisWeeksData == SelectSeq(Positions(d),
                                   LAMBDA i : d[i].ts >= from /\ d[i].ts <= to)
        horde == IF hasCompleteXFactionSupport
                 THEN <<>>
                 ELSE SelectSeq(thisWeeksData, LAMBDA i : d[i].faction = "horde")
        alliance == IF hasCompleteXFactionSupport
                    THEN <<>>
                    ELSE SelectSeq(thisWeeksData, LAMBDA i : d[i].faction = "alliance")
        untagged == SelectSeq(thisWeeksData, LAMBDA i : d[i].faction = xFaction)
        combined == IF hasCompleteXFactionSupport THEN thisWeeksData ELSE untagged
    IN [hordeDiff |-> FactionDiff(d, isFirstWeek, Last(horde), First(horde)),
        allianceDiff |-> FactionDiff(d, isFirstWeek, Last(alliance), First(alliance)),
        xFactionDiff |-> FactionDiff(d, isFirstWeek, Last(combined), First(combined))]

calculateFactionDiffForWeek(d, crossFactionSupport, isFirstWeek, from, to) ==
    LET hasCompleteXFactionSupport == crossFactionSupport = "complete"
        thisWeeksData == SelectSeq(Positions(d), LAMBDA i : inThisWeek(d[i].ts, from, to))
        horde == IF hasCompleteXFactionSupport
                 THEN <<>>
                 ELSE SelectSeq(thisWeeksData, LAMBDA i : d[i].faction = "horde")
        alliance == IF hasCompleteXFactionSupport
                    THEN <<>>
                    ELSE SelectSeq(thisWeeksData, LAMBDA i : d[i].faction = "alliance")
        untagged == SelectSeq(thisWeeksData, LAMBDA i : d[i].faction = xFaction)
        hordeEndMatch == IF hasCompleteXFactionSupport THEN 0 ELSE Last(horde)
        hordeStartMatch == IF hasCompleteXFactionSupport THEN 0 ELSE First(horde)
        allianceEndMatch == IF hasCompleteXFactionSupport THEN 0 ELSE Last(alliance)
        allianceStartMatch == IF hasCompleteXFactionSupport THEN 0 ELSE First(alliance)
        xFactionEndMatch == IF hasCompleteXFactionSupport
                            THEN Last(thisWeeksData)
                            ELSE IF crossFactionSupport = "partial"
                                 THEN Last(untagged)
                                 ELSE 0
        xFactionStartMatch == IF hasCompleteXFactionSupport
                              THEN First(thisWeeksData)
                              ELSE IF crossFactionSupport = "partial"
                                   THEN First(untagged)
                                   ELSE 0
    IN [hordeDiff |-> FactionDiff(d, isFirstWeek, hordeEndMatch, hordeStartMatch),
        allianceDiff |-> FactionDiff(d, isFirstWeek, allianceEndMatch, allianceStartMatch),
        xFactionDiff |-> FactionDiff(d, isFirstWeek, xFactionEndMatch, xFactionStartMatch)]

----------------------------------------------------------------------------
(* calculateExtrapolation *)

\* lines 119-121: new Date(endOverride), setHours(new Date(seasonStart).getUTCHours()),
\* getTime().  setHours sets the hour of the server's local time and keeps the
\* local date; zone is the hours local time is ahead of UTC.
retimeOverride(override, seasonStart, zone) ==
    LET utcHours == seasonStart % 24
        localDay == (override + zone) \div 24
    IN localDay * 24 + utcHours - zone

\* variant: an override replaces the season's end date
resolveSeasonEndingOverrideFirst(s, r, override, zone) ==
    IF Truthy(override)
    THEN retimeOverride(override, s.startDates[r], zone)
    ELSE s.endDates[r]

\* lines 105 and 117-122: the season end the function works with
resolveSeasonEnding(s, r, override, zone) ==
    LET seasonEnding == s.endDates[r]
        seasonStart == s.startDates[r]
    IN IF ~Truthy(seasonEnding) /\ Truthy(override)
       THEN retimeOverride(override, seasonStart, zone)
       ELSE seasonEnding

\* variant: four weeks, as the name has it
daysUntilSeasonEndingOrTwentyEight(seasonEnding, now2, now3) ==
    IF Truthy(seasonEnding) /\ seasonEnding > now2
    THEN Rat(seasonEnding - now3, oneDayInMs)
    ELSE Rat(28, 1)

\* lines 124-130 and 160: daysUntilSeasonEnding ?? 21, in days, as a rational.
\* now2 is the clock read by the comparison, now3 by the subtraction.
daysUntilSeasonEndingOrFourWeeks(seasonEnding, now2, now3) ==
    IF Truthy(seasonEnding) /\ seasonEnding > now2
    THEN Rat(seasonEnding - now3, oneDayInMs)
    ELSE Rat(21, 1)

\* variant: the days are taken for weeks
extrapolationEndWithoutSeventh(seasonEnding, lastTs, days) ==
    IF seasonEnding # NULL
    THEN seasonEnding
    ELSE lastTs + (days.n * oneWeekInMs) \div days.d

\* lines 161-163: seasonEnding ?? lastDataset.ts + (days / 7) * oneWeekInMs
extrapolationEnd(seasonEnding, lastTs, days) ==
    IF seasonEnding # NULL
    THEN seasonEnding
    ELSE lastTs + (days.n * oneWeekInMs) \div (7 * days.d)

\* Array.prototype.filter(Boolean) on numbers
FilterBoolean(s) == SelectSeq(s, LAMBDA x : x # 0)

\* Array.prototype.slice(k)
Slice(s, k) == SubSeq(s, k + 1, Len(s))

\* variant: the first four weeks are dropped before the zero diffs
passedWeeksDiffSliceFirst(d, s, r, seasonEnding) ==
    LET seasonStart == s.startDates[r]
        weeks == IF Truthy(seasonEnding)
                 THEN ToLength(seasonEnding - seasonStart, oneWeekInMs)
                 ELSE 36
        diffs == [w \in 1..weeks |->
                    LET index == w - 1
                        from == seasonStart + index * oneWeekInMs
                        to == from + oneWeekInMs
                    IN calculateFactionDiffForWeek(
                           d, s.crossFactionSupport, index = 0, from, to).xFactionDiff]
    IN FilterBoolean(Slice(diffs, 4))

\* lines 143-158
passedWeeksDiff(d, s, r, seasonEnding) ==
    LET seasonStart == s.startDates[r]
        weeks == IF Truthy(seasonEnding)
                 THEN ToLength(seasonEnding - seasonStart, oneWeekInMs)
                 ELSE 36
        diffs == [w \in 1..weeks |->
                    LET index == w - 1
                        from == seasonStart + index * oneWeekInMs
                        to == from + oneWeekInMs
                    IN calculateFactionDiffForWeek(
                           d, s.crossFactionSupport, index = 0, from, to).xFactionDiff]
    IN Slice(FilterBoolean(diffs), 4)

\* lines 177-178: the weight of the diff at (0-based) index, times 10
weightTimes10(length, index) ==
    LET factor == 10 - (length - index - 1)
    IN IF factor > 0 THEN factor ELSE 1

\* lines 174-179: passedWeeksDiff.reduce((acc, diff, index) => acc + diff * weight)
\* without an initial value: acc starts as the element at index 0 and the
\* callback runs from index 1.  The result is the sum times 10.
RECURSIVE reduceWeighted(_, _, _)
reduceWeighted(diffs, index, acc) ==
    IF index >= Len(diffs)
    THEN acc
    ELSE reduceWeighted(diffs, index + 1,
                        acc + diffs[index + 1] * weightTimes10(Len(diffs), index))

weightedSumTimes10(diffs) == reduceWeighted(diffs, 1, 10 * diffs[1])

\* variant: one day until the end is enough
takesWeightedBranchFromOneDay(diffs, timeUntilExtrapolationEnd) ==
    Len(diffs) >= 4 /\ timeUntilExtrapolationEnd >= oneWeekInMs \div 7

\* lines 167-170: the condition of the weighted branch
takesWeightedBranch(diffs, timeUntilExtrapolationEnd) ==
    Len(diffs) >= 4 /\ timeUntilExtrapolationEnd > oneWeekInMs \div 7

\* variant: one day until the end is enough
takesDenseBranchFromOneDay(timeUntilExtrapolationEnd) ==
    timeUntilExtrapolationEnd >= oneWeekInMs \div 7

\* line 213: the condition of the dense curve of the linear branch
takesDenseBranch(timeUntilExtrapolationEnd) ==
    timeUntilExtrapolationEnd > oneWeekInMs \div 7

\* variant: a point for the last day as well
intermediateLengthWithLastDay(days) == ToLength(days.n, days.d)

\* Array.from({ length: days - 1 }): the number of intermediate points
intermediateLength(days) == ToLength(days.n - days.d, days.d)

\* variant: the interval divides the time by the number of intermediate days
intermediateTsOverIntermediateDays(lastTs, timeUntilExtrapolationEnd, days, k) ==
    Rat(lastTs * (days.n - days.d) + timeUntilExtrapolationEnd * days.d * k,
        days.n - days.d)

\* lastDataset.ts + interval * k, interval = timeUntilExtrapolationEnd / days
intermediateTs(lastTs, timeUntilExtrapolationEnd, days, k) ==
    Rat(lastTs * days.n + timeUntilExtrapolationEnd * days.d * k, days.n)

\* lines 171-201: the curve of the weighted branch.  scoreIncreaseSteps is
\* sumTimes10 / 10 / length / 7 a day.
weightedCurve(last, to, days, diffs) ==
    LET timeUntilExtrapolationEnd == to - last.ts
        den == 10 * Len(diffs) * 7
        sumTimes10 == weightedSumTimes10(diffs)
    IN <<[ts |-> Rat(last.ts, 1), score |-> JsFin(last.score)]>>
       \o [k \in 1..intermediateLength(days) |->
             [ts |-> intermediateTs(last.ts, timeUntilExtrapolationEnd, days, k),
              score |-> JsFin(toOneDigit(last.score * den + sumTimes10 * k, den))]]
       \o <<[ts |-> Rat(to, 1),
             score |-> JsFin(toOneDigit(last.score * den * days.d + sumTimes10 * days.n,
                                        den * days.d))]>>

\* variant: the gain is not divided by the days passed
linearScoreWithoutDaysPassed(last, first, days) ==
    JsFin(toOneDigit(last.score * days.d + (last.score - first.score) * days.n, days.d))

\* lines 204-211: the projected end score of the linear branch; a division by
\* daysPassed = 0 gives Infinity or NaN as in IEEE 754
linearScore(last, first, days) ==
    LET timePassed == last.ts - first.ts
        gain == last.score - first.score
    IN IF timePassed # 0
       THEN JsFin(toOneDigit(last.score * days.d * timePassed
                               + gain * days.n * oneDayInMs,
                             days.d * timePassed))
       ELSE IF days.n = 0 \/ gain = 0
            THEN JsNaN
            ELSE JsInf(Sign(days.n) * Sign(gain))

\* variant: the steps of the curve are cut to the digits of the stored scores
linearStepScoreOfStoredDigits(last, score, days, k) ==
    IF score.fin
    THEN JsFin((last.score * days.n + (score.v - last.score) * days.d * k) \div days.n)
    ELSE score

\* lines 216-217 and 226: toOneDigit(lastDataset.score + scoreIncreaseSteps * k)
\* with scoreIncreaseSteps = (score - lastDataset.score) / days, for k >= 1
linearStepScore(last, score, days, k) ==
    IF score.fin
    THEN JsFin(toOneDigit(last.score * days.n + (score.v - last.score) * days.d * k,
                          days.n))
    ELSE score

\* lines 213-232
linearCurve(last, to, days, score) ==
    LET timeUntilExtrapolationEnd == to - last.ts
    IN <<[ts |-> Rat(last.ts, 1), score |-> JsFin(last.score)]>>
       \o [k \in 1..intermediateLength(days) |->
             [ts |-> intermediateTs(last.ts, timeUntilExtrapolationEnd, days, k),
              score |-> linearStepScore(last, score, days, k)]]
       \o <<[ts |-> Rat(to, 1), score |-> score]>>

None == [type |-> "None"]

\* lines 99-241.  now1, now2, now3 are the values of the three Date.now() reads
\* (lines 107, 125, 126).  `via` names the branch that built the forecast; it is
\* not part of the value the source returns.  `from` is the position of
\* lastDataset in data.
calculateExtrapolation(s, r, d, override, zone, now1, now2, now3) ==
    IF Truthy(s.endDates[r]) /\ now1 >= s.endDates[r]
    THEN None
    ELSE IF ~Truthy(s.startDates[r])
    THEN None
    ELSE
      LET seasonEnding == resolveSeasonEnding(s, r, override, zone)
          days == daysUntilSeasonEndingOrFourWeeks(seasonEnding, now2, now3)
          lastDataset == d[Len(d)]
          first == determineExtrapolationStart(d, s, r)
      IN IF first = 0
         THEN None
         ELSE
           LET diffs == passedWeeksDiff(d, s, r, seasonEnding)
               to == extrapolationEnd(seasonEnding, lastDataset.ts, days)
               timeUntilExtrapolationEnd == to - lastDataset.ts
               score == linearScore(lastDataset, d[first], days)
           IN IF takesWeightedBranch(diffs, timeUntilExtrapolationEnd)
              THEN [type |-> "DenseCurve", via |-> "weighted",
                    points |-> weightedCurve(lastDataset, to, days, diffs)]
              ELSE IF takesDenseBranch(timeUntilExtrapolationEnd)
              THEN [type |-> "DenseCurve", via |-> "linear",
                    points |-> linearCurve(lastDataset, to, days, score)]
              ELSE [type |-> "Segment", via |-> "linear",
                    from |-> Len(d),
                    to |-> [ts |-> to, score |-> score]]

----------------------------------------------------------------------------
(* calculateZoom *)

\* null where a fractional number is expected: the denominator is 0
NoDays == Rat(0, 0)

\* truthiness of a fractional number | null
TruthyDays(x) == x.d # 0 /\ x.n # 0

\* lines 251-254: the days until the region's end date, or null.  nowA is the
\* clock read by the comparison, nowB by the subtraction.
zoomDaysUntilSeasonEnding(seasonEnding, nowA, nowB) ==
    IF Truthy(seasonEnding) /\ seasonEnding > nowA
    THEN Rat(seasonEnding - nowB, oneDayInMs)
    ELSE NoDays

\* lines 256-259: the last timestamp of the extrapolation, else of the data
zoomEndOf(d, ex) ==
    IF ex.type = "DenseCurve"
    THEN ex.points[Len(ex.points)].ts
    ELSE IF ex.type = "Segment"
         THEN Rat(ex.to.ts, 1)
         ELSE Rat(d[Len(d)].ts, 1)

\* variant: the offsets without an extrapolation, whether there is one or not
zoomOffsetWithoutExtrapolation(daysUntilSeasonEnding, hasExtrapolation) ==
    IF TruthyDays(daysUntilSeasonEnding)
       /\ RatLess(daysUntilSeasonEnding, Rat(1, 1))
    THEN 8 * oneDayInMs
    ELSE IF TruthyDays(daysUntilSeasonEnding)
            /\ RatLess(daysUntilSeasonEnding, Rat(7, 1))
         THEN 2 * oneWeekInMs
         ELSE 4 * oneWeekInMs

\* lines 261-283: the offset; `if (daysUntilSeasonEnding)` fails for null and
\* for 0.  (1 + 1 / 7) * oneWeekInMs is 8 days.
zoomOffset(daysUntilSeasonEnding, hasExtrapolation) ==
    IF TruthyDays(daysUntilSeasonEnding)
       /\ RatLess(daysUntilSeasonEnding, Rat(1, 1))
    THEN 8 * oneDayInMs
    ELSE IF TruthyDays(daysUntilSeasonEnding)
            /\ RatLess(daysUntilSeasonEnding, Rat(7, 1))
         THEN (IF hasExtrapolation THEN 3 ELSE 2) * oneWeekInMs
         ELSE (IF hasExtrapolation THEN 6 ELSE 4) * oneWeekInMs

\* variant: a dataset at zoomEnd - offset qualifies as well
backThenInclusive(d, zoomEnd, offset) ==
    FindLast({i \in 1..Len(d) :
                ~RatLess(Rat(zoomEnd.n - offset * zoomEnd.d, zoomEnd.d), Rat(d[i].ts, 1))})

\* lines 264-266, 274-276, 285-287: [...data].reverse().find(ts < zoomEnd - offset),
\* as a position in data
backThen(d, zoomEnd, offset) ==
    FindLast({i \in 1..Len(d) :
                RatLess(Rat(d[i].ts, 1), Rat(zoomEnd.n - offset * zoomEnd.d, zoomEnd.d))})

\* lines 243-290.  `offset` names the offset that was applied; it is not part
\* of the pair the source returns.
calculateZoom(s, r, d, ex, nowA, nowB) ==
    LET daysUntilSeasonEnding == zoomDaysUntilSeasonEnding(s.endDates[r], nowA, nowB)
        zoomEnd == zoomEndOf(d, ex)
        offset == zoomOffset(daysUntilSeasonEnding, ex.type # "None")
        match == backThen(d, zoomEnd, offset)
    IN [type |-> "Zoom",
        start |-> IF match # 0 THEN d[match].ts ELSE 0,
        end |-> zoomEnd,
        offset |-> offset]

----------------------------------------------------------------------------
(* determineExtrapolationEnd.  The query value is [text, ts]: text tells     *)
(* whether the parameter is absent, empty, no date or a date, ts is the      *)
(* instant a date denotes.                                                  *)

\* line 302: new Date(maybeDate).getTime(), NaN for what is no date
DateGetTime(query) == IF query.text = "date" THEN query.ts ELSE NaN

\* variant: a date before now is handed on
determineExtrapolationEndUnchecked(query, nowRead) ==
    IF query.text \in {"absent", "empty"}
    THEN NULL
    ELSE DateGetTime(query)

\* lines 292-312; no comparison with NaN holds
determineExtrapolationEnd(query, nowRead) ==
    IF query.text \in {"absent", "empty"}
    THEN NULL
    ELSE LET date == DateGetTime(query)
         IN IF date # NaN /\ date < nowRead THEN NULL ELSE date

----------------------------------------------------------------------------
(* What the functions leave of the caller's series *)

\* lines 88-90: the series after determineExtrapolationStart; data.find reads it
seriesAfterDetermineExtrapolationStart(d) == d

\* lines 977-1007: the series after calculateFactionDiffForWeek; data.filter
\* builds the week's array, and reverse is applied to copies of that
seriesAfterCalculateFactionDiffForWeek(d) == d

\* variant: the last dataset is taken with data.pop(), which removes it
seriesAfterCalculateExtrapolationPop(d) == SubSeq(d, 1, Len(d) - 1)

\* lines 132-156: the series after calculateExtrapolation, which reads
\* data[data.length - 1] and hands the series to the two functions above
seriesAfterCalculateExtrapolation(d) ==
    seriesAfterCalculateFactionDiffForWeek(seriesAfterDetermineExtrapolationStart(d))

\* variant: the series itself is reversed in place, data.reverse()
seriesAfterCalculateZoomInPlace(d) == [i \in 1..Len(d) |-> d[Len(d) + 1 - i]]

\* lines 264-266, 274-276, 285-287: the series after calculateZoom;
\* [...data].reverse() reverses a copy
seriesAfterCalculateZoom(d) == d

----------------------------------------------------------------------------
(* The inputs the functions are applied to *)

\* the longest series
MaxObs == 10

\* the first dataset of a series: day 2, 04:00 UTC
DataStart == 2 * 24 + 4

\* hours between two datasets of a series
Gaps == {oneWeekInMs \div 2, oneWeekInMs}

\* score gained from one dataset to the next, in tenths, repeated in turn
ScoreSteps == {<<50, 60, 40, 50, 60, 70>>, <<30, 0>>, <<45, 0 - 8>>}

\* faction tags of the datasets, repeated in turn
FactionTags == {<<xFaction>>, <<"horde", "alliance">>, <<xFaction, "horde", "alliance">>}

CrossFactionSupport == {"none", "partial", "complete"}

Cyclic(pattern, i) == pattern[((i - 1) % Len(pattern)) + 1]

RECURSIVE ScoreAt(_, _)
ScoreAt(steps, i) ==
    IF i = 1 THEN 950 ELSE ScoreAt(steps, i - 1) + Cyclic(steps, i - 1)

\* a series sorted by ts, as the loader hands it over
Series(n, gap, steps, tags) ==
    [i \in 1..n |-> [ts |-> DataStart + (i - 1) * gap,
                     score |-> ScoreAt(steps, i),
                     faction |-> Cyclic(tags, i)]]

\* season starts by region: at the first dataset, unknown, 15 hours before the
\* first dataset, and a week before it
StartDates ==
    [r \in Regions |->
        CASE r = "eu" -> DataStart
          [] r = "us" -> NULL
          [] r = "kr" -> DataStart - 15
          [] r = "tw" -> DataStart - oneWeekInMs]

\* the season end, in hours after the last dataset
EndOffsets == {24, 36, 48, 60, 21 * 24}

\* the clock when the functions are applied, in hours after the last dataset
NowOffsets == {0, 36}

\* the override of the season end, in hours after the clock: the loader hands
\* over no override that lies before its own reading of the clock (line 304)
OverrideOffsets == {4, 30, 21 * 24 - 4}

\* hours the clock may advance between two reads of Date.now()
ClockSteps == {0, 12}

\* hours the server's local time is ahead of UTC
TimeZones == {0, 3}

Pending == [type |-> "pending"]

\* the query value of a request without the parameter
Absent == [text |-> "absent", ts |-> 0]

\* lines 342-362: the response before a region is handled
EmptyEnhancedSeason ==
    [data |-> [r \in Regions |-> <<>>],
     extrapolation |-> [r \in Regions |-> None],
     initialZoom |-> [r \in Regions |-> None]]

NoWeek == [isFirstWeek |-> FALSE, from |-> 0, to |-> 0]

\* no request for all four regions is under way
NoRegions ==
    /\ regionData = [r \in Regions |-> <<>>]
    /\ tasks = [r \in Regions |-> [pc |-> "idle", reads |-> <<>>]]
    /\ response = Pending

\* no page is rendered
NoPages ==
    /\ history = <<>>
    /\ thresholds = Pending

lastTs == data[Len(data)].ts

Init ==
    /\ \E n \in 1..MaxObs, gap \in Gaps, steps \in ScoreSteps, tags \in FactionTags :
          data = Series(n, gap, steps, tags)
    /\ region \in Regions
    /\ \E a \in NowOffsets : clock = lastTs + a
    /\ \E mode \in CrossFactionSupport :
          \/ /\ \E e \in EndOffsets :
                  season = [startDates |-> StartDates,
                            endDates |-> [r \in Regions |-> lastTs + e],
                            crossFactionSupport |-> mode]
             /\ endOverride = NULL
             /\ tz = 0
          \/ /\ season = [startDates |-> StartDates,
                          endDates |-> [r \in Regions |-> NULL],
                          crossFactionSupport |-> mode]
             /\ \/ endOverride = NULL /\ tz = 0
                \/ /\ \E o \in OverrideOffsets : endOverride = clock + o
                   /\ tz \in TimeZones
    /\ pc = "start"
    /\ firstRelevantDataset = 0
    /\ extrapolation = Pending
    /\ nowReads = <<>>
    /\ maybeDate = Absent
    /\ endRead = NULL
    /\ now = NULL
    /\ enhancedSeason = EmptyEnhancedSeason
    /\ zoomReads = <<>>
    /\ week = NoWeek
    /\ weekDiff = Pending
    /\ scoreUnit = 1
    /\ NoRegions
    /\ NoPages

inputs == <<season, region, endOverride, tz, scoreUnit>>

\* what the loader's four region tasks work on
regionVars == <<regionData, tasks, response>>

\* what src/pages/index.tsx works on
pageVars == <<history, thresholds>>

\* what the loader and calculateFactionDiffForWeek work on
others == <<maybeDate, endRead, now, enhancedSeason, zoomReads, week, weekDiff,
            regionVars, pageVars>>

DetermineExtrapolationStart ==
    /\ pc = "start"
    /\ firstRelevantDataset' = determineExtrapolationStart(data, season, region)
    /\ data' = seriesAfterDetermineExtrapolationStart(data)
    /\ pc' = "extrapolation"
    /\ UNCHANGED <<inputs, clock, extrapolation, nowReads, others>>

CalculateExtrapolation ==
    /\ pc = "extrapolation"
    /\ \E step1 \in ClockSteps, step2 \in ClockSteps :
          LET now1 == clock
              now2 == now1 + step1
              now3 == now2 + step2
          IN /\ extrapolation' = calculateExtrapolation(
                     season, region, data, endOverride, tz, now1, now2, now3)
             /\ nowReads' = <<now1, now2, now3>>
             /\ clock' = now3
    /\ data' = seriesAfterCalculateExtrapolation(data)
    /\ pc' = "done"
    /\ UNCHANGED <<inputs, firstRelevantDataset, others>>

Next ==
    \/ DetermineExtrapolationStart
    \/ CalculateExtrapolation

Spec == Init /\ [][Next]_vars

----------------------------------------------------------------------------
(* calculateExtrapolation on series of weekly datasets whose last dataset   *)
(* may follow after half a week                                             *)

SeriesWithLastGap(n, steps, tags, lastGap) ==
    [i \in 1..n |->
        [ts |-> IF i = n /\ n > 1
                THEN DataStart + (n - 2) * oneWeekInMs + lastGap
                ELSE DataStart + (i - 1) * oneWeekInMs,
         score |-> ScoreAt(steps, i),
         faction |-> Cyclic(tags, i)]]

SamplesInit ==
    /\ \E n \in 1..MaxObs, lastGap \in Gaps, steps \in ScoreSteps :
          data = SeriesWithLastGap(n, steps, <<xFaction>>, lastGap)
    /\ region \in Regions
    /\ \E a \in NowOffsets : clock = lastTs + a
    /\ \E mode \in CrossFactionSupport :
          \/ /\ \E e \in EndOffsets :
                  season = [startDates |-> StartDates,
                            endDates |-> [r \in Regions |-> lastTs + e],
                            crossFactionSupport |-> mode]
             /\ endOverride = NULL
             /\ tz = 0
          \/ /\ season = [startDates |-> StartDates,
                          endDates |-> [r \in Regions |-> NULL],
                          crossFactionSupport |-> mode]
             /\ \/ endOverride = NULL /\ tz = 0
                \/ /\ \E o \in OverrideOffsets : endOverride = clock + o
                   /\ tz \in TimeZones
    /\ pc = "start"
    /\ firstRelevantDataset = 0
    /\ extrapolation = Pending
    /\ nowReads = <<>>
    /\ maybeDate = Absent
    /\ endRead = NULL
    /\ now = NULL
    /\ enhancedSeason = EmptyEnhancedSeason
    /\ zoomReads = <<>>
    /\ week = NoWeek
    /\ weekDiff = Pending
    /\ scoreUnit = 1
    /\ NoRegions
    /\ NoPages

SamplesSpec == SamplesInit /\ [][Next]_vars

----------------------------------------------------------------------------
(* calculateExtrapolation on series whose scores carry two decimal digits  *)

\* score gained from one dataset to the next, in hundredths, repeated in turn
FineScoreSteps == {<<304, 297, 415, 500, 605, 703>>, <<45, 0 - 8>>}

FineInit ==
    /\ \E n \in 1..MaxObs, gap \in Gaps, steps \in FineScoreSteps :
          data = Series(n, gap, steps, <<xFaction>>)
    /\ scoreUnit = 10
    /\ region \in Regions
    /\ \E a \in NowOffsets : clock = lastTs + a
    /\ \E e \in {NULL} \cup {lastTs + o : o \in EndOffsets} :
          season = [startDates |-> StartDates,
                    endDates |-> [r \in Regions |-> e],
                    crossFactionSupport |-> "complete"]
    /\ endOverride = NULL
    /\ tz = 0
    /\ pc = "start"
    /\ firstRelevantDataset = 0
    /\ extrapolation = Pending
    /\ nowReads = <<>>
    /\ maybeDate = Absent
    /\ endRead = NULL
    /\ now = NULL
    /\ enhancedSeason = EmptyEnhancedSeason
    /\ zoomReads = <<>>
    /\ week = NoWeek
    /\ weekDiff = Pending
    /\ NoRegions
    /\ NoPages

FineSpec == FineInit /\ [][Next]_vars

----------------------------------------------------------------------------
(* calculateExtrapolation late in a season: weekly series of more than     *)
(* fourteen datasets                                                        *)

\* the longest series of a late season
LongObs == MaxObs + 7

LongInit ==
    /\ \E n \in (LongObs - 3)..LongObs, steps \in ScoreSteps :
          data = Series(n, oneWeekInMs, steps, <<xFaction>>)
    /\ scoreUnit = 1
    /\ region \in Regions
    /\ \E a \in NowOffsets : clock = lastTs + a
    /\ \E e \in {NULL} \cup {lastTs + o : o \in EndOffsets} :
          season = [startDates |-> StartDates,
                    endDates |-> [r \in Regions |-> e],
                    crossFactionSupport |-> "complete"]
    /\ endOverride = NULL
    /\ tz = 0
    /\ pc = "start"
    /\ firstRelevantDataset = 0
    /\ extrapolation = Pending
    /\ nowReads = <<>>
    /\ maybeDate = Absent
    /\ endRead = NULL
    /\ now = NULL
    /\ enhancedSeason = EmptyEnhancedSeason
    /\ zoomReads = <<>>
    /\ week = NoWeek
    /\ weekDiff = Pending
    /\ NoRegions
    /\ NoPages

LongSpec == LongInit /\ [][Next]_vars

----------------------------------------------------------------------------
(* The loader, for one region of the request *)

\* the season end, in hours after the last dataset (after DataStart when the
\* region has no data)
LoaderEndOffsets == {24, 36, 60, 5 * 24, 21 * 24}

\* the date of the query, in hours after the clock
QueryOffsets == {0 - 10, 4, 21 * 24 - 4}

Queries(at) ==
    {Absent, [text |-> "empty", ts |-> 0], [text |-> "no date", ts |-> 0]}
    \cup {[text |-> "date", ts |-> at + o] : o \in QueryOffsets}

LoaderInit ==
    /\ \E n \in {0, MaxObs \div 2, MaxObs}, gap \in Gaps :
          data = Series(n, gap, <<50, 60, 40, 50, 60, 70>>, <<xFaction>>)
    /\ region \in Regions
    /\ LET base == IF Len(data) = 0 THEN DataStart ELSE lastTs
       IN /\ \E a \in NowOffsets : clock = base + a
          /\ \E end \in {NULL} \cup {base + e : e \in LoaderEndOffsets} :
                season = [startDates |-> StartDates,
                          endDates |-> [r \in Regions |-> end],
                          crossFactionSupport |-> "complete"]
    /\ maybeDate \in Queries(clock)
    /\ tz \in TimeZones
    /\ endOverride = NULL
    /\ endRead = NULL
    /\ now = NULL
    /\ enhancedSeason = EmptyEnhancedSeason
    /\ pc = "loader"
    /\ firstRelevantDataset = 0
    /\ extrapolation = Pending
    /\ nowReads = <<>>
    /\ zoomReads = <<>>
    /\ week = NoWeek
    /\ weekDiff = Pending
    /\ scoreUnit = 1
    /\ NoRegions
    /\ NoPages

\* hours the clock may advance between the two reads of calculateZoom
ZoomClockSteps == ClockSteps \cup {18}

\* variant: a season that ends now has not ended
seasonEndedStrict(seasonEnding, nowRead) ==
    Truthy(seasonEnding) /\ seasonEnding < nowRead

\* line 379: season ended, no need for zoomies or extrapolation
seasonEnded(seasonEnding, nowRead) ==
    Truthy(seasonEnding) /\ seasonEnding <= nowRead

\* lines 314-369: up to the await of loadDataForRegion.  The clock is read at
\* line 304, when there is a query value, and at line 364.
Loader ==
    /\ pc = "loader"
    /\ \E step \in ClockSteps :
          LET read304 == clock
              read364 == IF maybeDate.text \in {"absent", "empty"}
                         THEN clock
                         ELSE clock + step
          IN /\ endOverride' = determineExtrapolationEnd(maybeDate, read304)
             /\ endRead' = IF maybeDate.text \in {"absent", "empty"}
                           THEN NULL
                           ELSE read304
             /\ now' = read364
             /\ clock' = read364
    /\ pc' = "task"
    /\ UNCHANGED <<season, region, data, tz, maybeDate, enhancedSeason,
                   firstRelevantDataset, extrapolation, nowReads, zoomReads,
                   week, weekDiff, scoreUnit, regionVars, pageVars>>

\* lines 370-397: the task of region r once its series d is loaded.  The clock
\* is read three times by calculateExtrapolation and twice by calculateZoom;
\* the series is the one object that enhancedSeason.data[r] and both functions
\* refer to.
Task(r, d, Waits, Steps, ZoomSteps) ==
    \E wait \in Waits, step1 \in Steps, step2 \in Steps, step3 \in Steps,
       step4 \in ZoomSteps :
       LET seasonEnding == season.endDates[r]
           now1 == clock + wait
           now2 == now1 + step1
           now3 == now2 + step2
           nowA == now3 + step3
           nowB == nowA + step4
           extrapolated == seriesAfterCalculateExtrapolation(d)
       IN IF Len(d) = 0 \/ seasonEnded(seasonEnding, now)
          THEN /\ enhancedSeason' = [enhancedSeason EXCEPT !.data[r] = d]
               /\ data' = d
               /\ extrapolation' = Pending
               /\ nowReads' = <<>>
               /\ zoomReads' = <<>>
               /\ clock' = now1
          ELSE /\ extrapolation' = calculateExtrapolation(
                     season, r, d, endOverride, tz, now1, now2, now3)
               /\ data' = seriesAfterCalculateZoom(extrapolated)
               /\ enhancedSeason' =
                     [enhancedSeason EXCEPT
                         !.data[r] = data',
                         !.extrapolation[r] = extrapolation',
                         !.initialZoom[r] =
                             calculateZoom(season, r, extrapolated, extrapolation',
                                           nowA, nowB)]
               /\ nowReads' = <<now1, now2, now3>>
               /\ zoomReads' = <<nowA, nowB>>
               /\ clock' = nowB

\* the task of the one region the request is followed for
RegionTask ==
    /\ pc = "task"
    /\ tasks[region].pc = "idle"
    /\ Task(region, data, ClockSteps, ClockSteps, ZoomClockSteps)
    /\ pc' = "finished"
    /\ UNCHANGED <<season, region, tz, maybeDate, endOverride, endRead, now,
                   firstRelevantDataset, week, weekDiff, scoreUnit, regionVars,
                   pageVars>>

LoaderNext ==
    \/ Loader
    \/ RegionTask

LoaderSpec == LoaderInit /\ [][LoaderNext]_vars

----------------------------------------------------------------------------
(* The loader, for the four regions of the request: the four tasks start   *)
(* together and each goes on, in one piece, when its data is loaded        *)

\* variant: the response is built as soon as one task has finished
promiseAny(t) == \E r \in Regions : t[r].pc = "finished"

\* line 367: Promise.all is fulfilled when every task has finished
promiseAll(t) == \A r \in Regions : t[r].pc = "finished"

\* what loadDataForRegion resolves to, by region; no data for us
RegionSeries(gap) ==
    [r \in Regions |->
        CASE r = "eu" -> Series(MaxObs, gap, <<50, 60, 40, 50, 60, 70>>, <<xFaction>>)
          [] r = "kr" -> Series(MaxObs \div 2, gap, <<30, 0>>, <<xFaction>>)
          [] r = "tw" -> Series(MaxObs, gap, <<45, 0 - 8>>, <<xFaction>>)
          [] r = "us" -> <<>>]

\* the season ends of a season that is under way everywhere (unknown), or
\* that ends `end` hours after the last dataset of eu and tw and has ended a
\* day before it in kr
RegionEndDates(base, end) ==
    [r \in Regions |->
        IF end = NULL THEN NULL
        ELSE IF r = "kr" THEN base - oneDayInMs
        ELSE base + end]

RegionsInit ==
    /\ \E gap \in Gaps : regionData = RegionSeries(gap)
    /\ tasks = [r \in Regions |-> [pc |-> "pending", reads |-> <<>>]]
    /\ response = Pending
    /\ LET base == regionData["eu"][MaxObs].ts
       IN /\ \E a \in NowOffsets : clock = base + a
          /\ \E end \in {NULL, oneDayInMs, 36, 5 * oneDayInMs} :
                season = [startDates |-> StartDates,
                          endDates |-> RegionEndDates(base, end),
                          crossFactionSupport |-> "complete"]
    /\ maybeDate \in {Absent, [text |-> "date", ts |-> clock + 21 * 24 - 4]}
    /\ tz = 0
    /\ scoreUnit = 1
    /\ region = "eu"
    /\ data = <<>>
    /\ endOverride = NULL
    /\ endRead = NULL
    /\ now = NULL
    /\ enhancedSeason = EmptyEnhancedSeason
    /\ pc = "loader"
    /\ firstRelevantDataset = 0
    /\ extrapolation = Pending
    /\ nowReads = <<>>
    /\ zoomReads = <<>>
    /\ week = NoWeek
    /\ weekDiff = Pending
    /\ NoPages

\* lines 369-397: the data of region r is loaded and its task runs to its end;
\* region, data and extrapolation are the task's own
RegionTaskOf(r) ==
    /\ pc = "task"
    /\ tasks[r].pc = "pending"
    /\ Task(r, regionData[r], ClockSteps, {0}, {0})
    /\ region' = r
    /\ regionData' = [regionData EXCEPT ![r] = data']
    /\ tasks' = [tasks EXCEPT ![r] = [pc |-> "finished",
                                      reads |-> nowReads' \o zoomReads']]
    /\ UNCHANGED <<season, tz, maybeDate, endOverride, endRead, now, pc, response,
                   firstRelevantDataset, week, weekDiff, scoreUnit, pageVars>>

\* Array.prototype.reduce((acc, dataset) => acc > dataset.ts ? acc : dataset.ts, acc)
RECURSIVE reduceMostRecent(_, _, _)
reduceMostRecent(d, index, acc) ==
    IF index > Len(d)
    THEN acc
    ELSE reduceMostRecent(d, index + 1, IF acc > d[index].ts THEN acc ELSE d[index].ts)

\* lines 400-402 over Object.values(enhancedSeason.data).flat()
mostRecentDataset(byRegion) ==
    reduceMostRecent(byRegion["eu"] \o byRegion["us"] \o byRegion["kr"] \o byRegion["tw"],
                     1, 0)

\* lines 400-408: the response, once Promise.all is fulfilled
Respond ==
    /\ pc = "task"
    /\ promiseAll(tasks)
    /\ response' =
          [type |-> "Response",
           body |-> enhancedSeason,
           lastModified |-> mostRecentDataset(enhancedSeason.data),
           eTag |-> SelectSeq(<<mostRecentDataset(enhancedSeason.data), endOverride>>,
                              Truthy)]
    /\ pc' = "responded"
    /\ UNCHANGED <<season, region, data, tz, maybeDate, endOverride, endRead, now,
                   clock, enhancedSeason, extrapolation, nowReads, zoomReads,
                   firstRelevantDataset, week, weekDiff, scoreUnit, regionData,
                   tasks, pageVars>>

RegionsNext ==
    \/ Loader
    \/ \E r \in Regions : RegionTaskOf(r)
    \/ Respond

RegionsSpec == RegionsInit /\ [][RegionsNext]_vars

----------------------------------------------------------------------------
(* calculateFactionDiffForWeek, applied to a week of a series *)

\* score gained from one dataset to the next; the second returns to the first
\* score of the series
WeekScoreSteps == {<<50, 60, 40>>, <<20, 0 - 20>>}

WeekFactionTags ==
    FactionTags \cup {<<"horde", xFaction, xFaction, "alliance">>}

\* hours between two datasets of a series
WeekGaps == Gaps \cup {oneDayInMs}

\* the start of the week, in hours after the first dataset
WeekOffsets == {0 - oneWeekInMs, 0, oneWeekInMs \div 2, oneWeekInMs}

WeekInit ==
    /\ \E n \in 0..MaxObs, gap \in WeekGaps, steps \in WeekScoreSteps,
          tags \in WeekFactionTags :
          data = Series(n, gap, steps, tags)
    /\ \E mode \in CrossFactionSupport :
          season = [startDates |-> StartDates,
                    endDates |-> [r \in Regions |-> NULL],
                    crossFactionSupport |-> mode]
    /\ \E isFirstWeek \in BOOLEAN, o \in WeekOffsets :
          week = [isFirstWeek |-> isFirstWeek,
                  from |-> DataStart + o,
                  to |-> DataStart + o + oneWeekInMs]
    /\ weekDiff = Pending
    /\ pc = "week"
    /\ region = "eu"
    /\ clock = DataStart
    /\ endOverride = NULL
    /\ tz = 0
    /\ firstRelevantDataset = 0
    /\ extrapolation = Pending
    /\ nowReads = <<>>
    /\ maybeDate = Absent
    /\ endRead = NULL
    /\ now = NULL
    /\ enhancedSeason = EmptyEnhancedSeason
    /\ zoomReads = <<>>
    /\ scoreUnit = 1
    /\ NoRegions
    /\ NoPages

CalculateFactionDiffForWeek ==
    /\ pc = "week"
    /\ weekDiff' = calculateFactionDiffForWeek(
                       data, season.crossFactionSupport, week.isFirstWeek,
                       week.from, week.to)
    /\ data' = seriesAfterCalculateFactionDiffForWeek(data)
    /\ pc' = "diffed"
    /\ UNCHANGED <<inputs, clock, firstRelevantDataset, extrapolation, nowReads,
                   maybeDate, endRead, now, enhancedSeason, zoomReads, week,
                   regionVars, pageVars>>

WeekNext == CalculateFactionDiffForWeek

WeekSpec == WeekInit /\ [][WeekNext]_vars

----------------------------------------------------------------------------
(* calculateOverallMinMax of src/pages/index.tsx, the thresholds of the    *)
(* history graph.  customScore and customRank are counted in tenths.       *)

\* the number Infinity: above every value of a history
Infinity == 1000000

\* Math.floor and Math.ceil of a number of tenths, in tenths
MathFloor(value) == 10 * (value \div 10)
MathCeil(value) == 10 * ((value + 9) \div 10)

\* lines 87-109: the callback of the reduce
minMaxStep(acc, dataset, type) ==
    LET value == IF type = "score" THEN dataset.customScore ELSE dataset.customRank
    IN IF value = 0
       THEN acc
       ELSE IF value < acc.min
       THEN [acc EXCEPT !.min = MathFloor(value)]
       ELSE IF value > acc.max
       THEN [acc EXCEPT !.max = MathCeil(value)]
       ELSE acc

\* lines 83-114: data.reduce(callback, { min: Infinity, max: -Infinity })
RECURSIVE reduceMinMax(_, _, _, _)
reduceMinMax(d, type, index, acc) ==
    IF index > Len(d)
    THEN acc
    ELSE reduceMinMax(d, type, index + 1, minMaxStep(acc, d[index], type))

\* lines 79-121: null is None
calculateOverallMinMax(d, type) ==
    LET result == reduceMinMax(d, type, 1, [min |-> Infinity, max |-> 0 - Infinity])
    IN IF result.min = Infinity \/ result.max = 0 - Infinity
       THEN None
       ELSE [type |-> "MinMax", min |-> result.min, max |-> result.max]

\* the longest history
MaxHistory == MaxObs \div 2

\* the entries of a history: one of a failed update (all 0), and three of
\* rising score and falling rank
HistoryEntries ==
    {[customScore |-> 0, customRank |-> 0],
     [customScore |-> 1234, customRank |-> 30],
     [customScore |-> 1250, customRank |-> 20],
     [customScore |-> 1301, customRank |-> 10]}

PagesInit ==
    /\ \E n \in 0..MaxHistory : history \in [1..n -> HistoryEntries]
    /\ thresholds = Pending
    /\ pc = "graph"
    /\ data = <<>>
    /\ season = [startDates |-> StartDates,
                 endDates |-> [r \in Regions |-> NULL],
                 crossFactionSupport |-> "none"]
    /\ region = "eu"
    /\ clock = DataStart
    /\ endOverride = NULL
    /\ tz = 0
    /\ scoreUnit = 1
    /\ firstRelevantDataset = 0
    /\ extrapolation = Pending
    /\ nowReads = <<>>
    /\ maybeDate = Absent
    /\ endRead = NULL
    /\ now = NULL
    /\ enhancedSeason = EmptyEnhancedSeason
    /\ zoomReads = <<>>
    /\ week = NoWeek
    /\ weekDiff = Pending
    /\ NoRegions

\* lines 199-200: Graph takes the thresholds of the scores and of the ranks
Graph ==
    /\ pc = "graph"
    /\ thresholds' = [score |-> calculateOverallMinMax(history, "score"),
                      rank |-> calculateOverallMinMax(history, "rank")]
    /\ pc' = "rendered"
    /\ UNCHANGED <<inputs, data, clock, firstRelevantDataset, extrapolation, nowReads,
                   maybeDate, endRead, now, enhancedSeason, zoomReads, week, weekDiff,
                   regionVars, history>>

PagesNext == Graph

PagesSpec == PagesInit /\ [][PagesNext]_vars

----------------------------------------------------------------------------
(* What the claims speak of, in terms of the state *)

seasonStart == season.startDates[region]
seasonEnd == season.endDates[region]
lastDataset == data[Len(data)]

hasForecast == pc = "done" /\ extrapolation.type # "None"
isDenseCurve == pc = "done" /\ extrapolation.type = "DenseCurve"
isSegment == pc = "done" /\ extrapolation.type = "Segment"
isWeighted == hasForecast /\ extrapolation.via = "weighted"
isLinear == hasForecast /\ extrapolation.via = "linear"

\* the working end: the season end, else the re-timed override, else three
\* weeks after the last dataset
hasWorkingEnd == seasonEnd # NULL \/ endOverride # NULL
workingEnd ==
    IF seasonEnd # NULL
    THEN seasonEnd
    ELSE IF endOverride # NULL
         THEN retimeOverride(endOverride, seasonStart, tz)
         ELSE lastTs + 3 * oneWeekInMs

\* the days until the end the function worked with
days ==
    daysUntilSeasonEndingOrFourWeeks(
        resolveSeasonEnding(season, region, endOverride, tz), nowReads[2], nowReads[3])

\* the weekly diffs the function kept
retained ==
    passedWeeksDiff(data, season, region,
                    resolveSeasonEnding(season, region, endOverride, tz))

\* the projected end score of a forecast of the linear branch
endScore ==
    IF extrapolation.type = "Segment"
    THEN extrapolation.to.score
    ELSE extrapolation.points[Len(extrapolation.points)].score

Qualifying == {i \in 1..Len(data) : data[i].ts >= seasonStart + 4 * oneWeekInMs}

----------------------------------------------------------------------------
\* C1: calculateExtrapolation returns null exactly when the region's end date
\* is set and now (the first reading of the clock) is at or after it, or the
\* start date is unknown, or no dataset lies at or after start + 4 weeks; in
\* every other case it returns a dense curve or a segment.
C1_NoneExactlyWhen ==
    pc = "done" =>
        /\ extrapolation.type \in {"None", "DenseCurve", "Segment"}
        /\ extrapolation.type = "None" <=>
              \/ seasonEnd # NULL /\ nowReads[1] >= seasonEnd
              \/ seasonStart = NULL
              \/ Qualifying = {}

C1_Witness ==
    /\ pc = "done"
    /\ extrapolation.type = "None"
    /\ seasonStart # NULL
    /\ seasonEnd # NULL
    /\ nowReads[1] < seasonEnd
    /\ Len(data) > 1

\* C2: a dense curve starts at (lastDataset.ts, lastDataset.score) and its last
\* point lies at the working end.
C2_DenseCurveEnds ==
    isDenseCurve =>
        LET points == extrapolation.points
        IN /\ points[1] = [ts |-> Rat(lastDataset.ts, 1), score |-> JsFin(lastDataset.score)]
           /\ RatEq(points[Len(points)].ts, Rat(workingEnd, 1))

C2_Witness ==
    /\ isDenseCurve
    /\ seasonEnd = NULL
    /\ endOverride # NULL
    /\ workingEnd # endOverride

C2_WitnessDefault ==
    /\ isDenseCurve
    /\ ~hasWorkingEnd

\* C3: the timestamps of a dense curve increase strictly from point to point.
C3_StrictlyIncreasing ==
    isDenseCurve =>
        LET points == extrapolation.points
        IN \A i \in 1..(Len(points) - 1) : RatLess(points[i].ts, points[i + 1].ts)

C3_Witness ==
    /\ isDenseCurve
    /\ days.n % days.d # 0
    /\ Len(extrapolation.points) >= 3

C3_WitnessBelowOneDay ==
    /\ isDenseCurve
    /\ days.n < days.d
    /\ workingEnd - lastTs > oneDayInMs

\* the sum of diffs[i] * weight_i over every index i = 0..n-1, times 10, with
\* weight_i = max(1 - (n - i - 1) / 10, 0.1)
RECURSIVE SumOfWeighted(_, _)
SumOfWeighted(diffs, upTo) ==
    IF upTo = 0
    THEN 0
    ELSE LET index == upTo - 1
             tenth == 10 - (Len(diffs) - index - 1)
             weight == IF tenth >= 1 THEN tenth ELSE 1
         IN SumOfWeighted(diffs, upTo - 1) + diffs[upTo] * weight

\* the daily increment of a forecast, as a rational: of the weighted branch the
\* weighted sum / 10 / n / 7, of the linear branch (endScore - lastScore) / days
dailyIncrement ==
    IF extrapolation.via = "weighted"
    THEN Rat(weightedSumTimes10(retained), 10 * Len(retained) * 7)
    ELSE Rat((endScore.v - lastDataset.score) * days.d, days.n)

\* C4: in the weighted branch the daily increment is the sum of every retained
\* diff times its own weight, the oldest diff at index 0 included, / n / 7.
C4_EveryDiffWeighted ==
    isWeighted =>
        RatEq(dailyIncrement,
              Rat(SumOfWeighted(retained, Len(retained)), 10 * Len(retained) * 7))

\* C5 as stated: the weighted branch is taken if and only if at least 4 diffs
\* are retained and the days from now until the working end exceed 1.
C5_WeightedIffDaysUntilEnd ==
    hasForecast =>
        (isWeighted <=> Len(retained) >= 4 /\ days.n > days.d)

\* C5: the weighted branch is taken if and only if at least 4 diffs are
\* retained and the working end lies more than one day after the last
\* dataset; otherwise the linear branch is taken.
C5_WeightedIffTimeFromLast ==
    hasForecast =>
        /\ isWeighted <=> Len(retained) >= 4 /\ workingEnd - lastTs > oneDayInMs
        /\ isLinear <=> ~isWeighted

C5_Witness ==
    /\ isWeighted
    /\ days.n <= days.d

\* C6 as stated: with at most one day from now until the working end, a
\* forecast is a segment.
C6_SegmentWhenDaysUntilEndSmall ==
    hasForecast /\ days.n <= days.d
        => isSegment

\* C6: a forecast is a segment exactly when the working end lies at most one
\* day after the last dataset; the segment runs from the last dataset to the
\* working end and the projected end score.  With at most one day from now
\* until a working end that lies further after the last dataset, the forecast
\* is a dense curve of two points.
C6_SegmentIffTimeFromLastSmall ==
    hasForecast =>
        /\ isSegment <=> workingEnd - lastTs <= oneDayInMs
        /\ days.n <= days.d /\ workingEnd - lastTs > oneDayInMs =>
              isDenseCurve /\ Len(extrapolation.points) = 2
        /\ isSegment =>
              /\ extrapolation.from = Len(data)
              /\ extrapolation.to.ts = workingEnd
              /\ extrapolation.to.score
                    = linearScore(lastDataset, data[firstRelevantDataset], days)

C6_Witness ==
    /\ isSegment
    /\ 2 * days.n = days.d

\* C7: every score of a forecast is a finite number.
C7_ScoresFinite ==
    hasForecast =>
        IF extrapolation.type = "Segment"
        THEN extrapolation.to.score.fin
        ELSE \A i \in 1..Len(extrapolation.points) : extrapolation.points[i].score.fin

\* round1(lastScore + gain * d / daysPassed) for d = dd days, with
\* daysPassed = (lastDataset.ts - anchor.ts) / 1 day; not a finite number when
\* daysPassed = 0
ProjectedEndScore(anchor, dd) ==
    LET hoursPassed == lastDataset.ts - anchor.ts
        gain == lastDataset.score - anchor.score
    IN IF hoursPassed = 0
       THEN [fin |-> FALSE]
       ELSE [fin |-> TRUE,
             v |-> toOneDigit(lastDataset.score * hoursPassed * dd.d
                                + gain * dd.n * oneDayInMs,
                              hoursPassed * dd.d)]

SameNumber(x, expected) ==
    IF expected.fin THEN x.fin /\ x.v = expected.v ELSE ~x.fin

\* the intermediate points of a dense curve of the linear branch advance by
\* (endScore - lastScore) / dd a day, and the curve ends with endScore
LinearCurveSteps(dd) ==
    extrapolation.type = "DenseCurve" =>
        LET points == extrapolation.points
        IN /\ points[Len(points)].score = endScore
           /\ \A k \in 1..(Len(points) - 2) :
                 endScore.fin =>
                    points[k + 1].score =
                       JsFin(toOneDigit(lastDataset.score * dd.n
                                          + k * (endScore.v - lastDataset.score) * dd.d,
                                        dd.n))

\* C8 as stated: the days until the end are the days from now to the working
\* end, and 21 when there is no working end (checked where daysPassed # 0).
DaysFromNowToWorkingEnd ==
    IF hasWorkingEnd
    THEN Rat(workingEnd - nowReads[3], oneDayInMs)
    ELSE Rat(21, 1)

C8_LinearScoreDaysFromNow ==
    isLinear /\ firstRelevantDataset # Len(data) =>
        SameNumber(endScore,
                   ProjectedEndScore(data[firstRelevantDataset], DaysFromNowToWorkingEnd))

\* C8: the days until the end are the days from now to the working end when
\* the working end lies after now, and 21 otherwise: when there is no working
\* end and when the working end does not lie after now.
DaysUntilLaterWorkingEnd ==
    IF hasWorkingEnd /\ workingEnd > nowReads[2]
    THEN Rat(workingEnd - nowReads[3], oneDayInMs)
    ELSE Rat(21, 1)

C8_LinearScore ==
    isLinear =>
        /\ SameNumber(endScore,
                      ProjectedEndScore(data[firstRelevantDataset], DaysUntilLaterWorkingEnd))
        /\ LinearCurveSteps(DaysUntilLaterWorkingEnd)

C8_Witness ==
    /\ isLinear
    /\ isDenseCurve
    /\ Len(extrapolation.points) >= 3
    /\ endScore.fin
    /\ endScore.v # lastDataset.score
    /\ hasWorkingEnd

C8_WitnessWorkingEndNotLater ==
    /\ isLinear
    /\ hasWorkingEnd
    /\ workingEnd <= nowReads[2]
    /\ nowReads[1] = nowReads[3]

\* the k-th intermediate point of a dense curve lies at
\* lastTs + k * (workingEnd - lastTs) / days with the score
\* round1(lastScore + k * dailyIncrement); the curve ends at the working end
\* with round1(lastScore + dailyIncrement * days), which in the linear branch is
\* the projected end score
DenseCurvePoints ==
    LET points == extrapolation.points
        inc == dailyIncrement
    IN /\ \A k \in 1..(Len(points) - 2) :
             /\ RatEq(points[k + 1].ts,
                      Rat(lastTs * days.n + k * (workingEnd - lastTs) * days.d, days.n))
             /\ endScore.fin =>
                   points[k + 1].score =
                      JsFin(toOneDigit(lastDataset.score * inc.d + k * inc.n, inc.d))
       /\ RatEq(points[Len(points)].ts, Rat(workingEnd, 1))
       /\ isWeighted =>
             points[Len(points)].score =
                JsFin(toOneDigit(lastDataset.score * inc.d * days.d + inc.n * days.n,
                                 inc.d * days.d))

\* the example of the specification: the last dataset on day 49 of a season of
\* 70 days, 21 days before the end
IsExample ==
    /\ seasonStart # NULL
    /\ seasonEnd # NULL
    /\ lastTs = seasonStart + 49 * oneDayInMs
    /\ seasonEnd = seasonStart + 70 * oneDayInMs
    /\ days = Rat(21 * oneDayInMs, oneDayInMs)

\* C9 as stated: a dense curve for a whole number d of days holds the last
\* dataset, d - 1 intermediate points and the final point; the curve of the
\* example has 21 points.
C9_CurveOfExampleHas21Points ==
    isDenseCurve /\ days.n % days.d = 0 /\ days.n >= days.d =>
        /\ Len(extrapolation.points) = 1 + (days.n \div days.d - 1) + 1
        /\ DenseCurvePoints
        /\ IsExample => Len(extrapolation.points) = 21

\* C9: a dense curve for d days holds the last dataset, one intermediate point
\* for each whole day before the last of the d days (trunc(d) - 1 points, none
\* when d < 2) and the final point; the curve of the example has 22 points.
C9_CurvePoints ==
    isDenseCurve =>
        /\ Len(extrapolation.points)
              = 1 + (IF days.n >= 2 * days.d THEN days.n \div days.d - 1 ELSE 0) + 1
        /\ DenseCurvePoints
        /\ IsExample => Len(extrapolation.points) = 22

C9_Witness ==
    /\ isDenseCurve
    /\ IsExample

C9_WitnessFractional ==
    /\ isDenseCurve
    /\ days.n % days.d # 0
    /\ days.n > 2 * days.d

\* C10: determineExtrapolationStart returns null without a start date, else the
\* first dataset in series order at or after start + 4 weeks, else null.
C10_FirstQualifying ==
    pc # "start" =>
        IF seasonStart = NULL \/ Qualifying = {}
        THEN firstRelevantDataset = 0
        ELSE /\ firstRelevantDataset \in Qualifying
             /\ \A i \in Qualifying : firstRelevantDataset <= i

C10_Witness ==
    /\ pc # "start"
    /\ firstRelevantDataset # 0
    /\ data[firstRelevantDataset].ts = seasonStart + 4 * oneWeekInMs
    /\ firstRelevantDataset < Len(data)

C10_WitnessNoneQualifies ==
    /\ pc # "start"
    /\ seasonStart # NULL
    /\ firstRelevantDataset = 0

----------------------------------------------------------------------------
(* What the claims speak of, for the loader *)

\* the region's task has come to an end
finished == pc = "finished"

\* the task evaluated calculateExtrapolation and calculateZoom
evaluated == finished /\ nowReads # <<>>

forecast == enhancedSeason.extrapolation[region]
zoom == enhancedSeason.initialZoom[region]

\* the timestamp a forecast ends at
forecastEnd ==
    IF forecast.type = "DenseCurve"
    THEN forecast.points[Len(forecast.points)].ts
    ELSE Rat(forecast.to.ts, 1)

\* what calculateExtrapolation returns for another override, all else equal
WithOverride(o) ==
    calculateExtrapolation(season, region, data, o, tz,
                           nowReads[1], nowReads[2], nowReads[3])

\* overrides a request can bring about: none, no date, and dates from now on
OverrideValues == {NULL, NaN} \cup {now + o : o \in OverrideOffsets}

\* C11: when the region's end date is known, the override has no effect: the
\* result is the same for every override, absent included, and a forecast ends
\* at the end date.
C11_OverrideIgnored ==
    evaluated /\ seasonEnd # NULL =>
        /\ \A o \in OverrideValues : forecast = WithOverride(o)
        /\ forecast.type # "None" => RatEq(forecastEnd, Rat(seasonEnd, 1))

C11_Witness ==
    /\ evaluated
    /\ seasonEnd # NULL
    /\ Truthy(endOverride)
    /\ retimeOverride(endOverride, seasonStart, tz) # seasonEnd
    /\ forecast.type = "DenseCurve"

----------------------------------------------------------------------------
\* the timestamp the result of calculateExtrapolation ends at
extrapolationEndTs ==
    IF extrapolation.type = "Segment"
    THEN extrapolation.to.ts
    ELSE LET last == extrapolation.points[Len(extrapolation.points)]
         IN last.ts.n \div last.ts.d

\* C12: without an end date, a forecast for an override ends on the override's
\* UTC calendar date at the UTC hour of the day of the start date.
C12_RetimedToStartHourUTC ==
    hasForecast /\ seasonEnd = NULL /\ endOverride # NULL =>
        /\ extrapolationEndTs \div 24 = endOverride \div 24
        /\ extrapolationEndTs % 24 = seasonStart % 24

\* the forecast is what d days until the end give: the number of points of a
\* dense curve, the timestamps of its intermediate points and the projected
\* end score of the linear branch
ForecastForDays(d) ==
    /\ RatEq(days, d)
    /\ isDenseCurve =>
          LET points == extrapolation.points
          IN /\ Len(points) = 2 + (IF d.n >= 2 * d.d THEN d.n \div d.d - 1 ELSE 0)
             /\ \A k \in 1..(Len(points) - 2) :
                   RatEq(points[k + 1].ts,
                         Rat(lastTs * d.n + k * (extrapolationEndTs - lastTs) * d.d, d.n))
    /\ isLinear =>
          SameNumber(endScore, ProjectedEndScore(data[firstRelevantDataset], d))

\* C13: without an end date and an override the days until the end are 21 and
\* the forecast ends three weeks after the last dataset; with a working end
\* after now they are (workingEnd - now) / 1 day, now being the clock the
\* subtraction reads.
C13_DaysUntilEnd ==
    hasForecast =>
        /\ ~hasWorkingEnd =>
              /\ ForecastForDays(Rat(21, 1))
              /\ extrapolationEndTs = lastTs + 3 * oneWeekInMs
        /\ hasWorkingEnd /\ workingEnd > nowReads[3] =>
              ForecastForDays(Rat(workingEnd - nowReads[3], oneDayInMs))

C13_Witness ==
    /\ isDenseCurve
    /\ hasWorkingEnd
    /\ workingEnd > nowReads[3]
    /\ nowReads[3] > nowReads[2]
    /\ Len(extrapolation.points) >= 3

C13_WitnessDefault ==
    /\ isDenseCurve
    /\ ~hasWorkingEnd
    /\ Len(extrapolation.points) = 22

\* the combined delta of the week of seasonStart with the given 0-based index
WeeklyDelta(index) ==
    calculateFactionDiffForWeek(
        data, season.crossFactionSupport, index = 0,
        seasonStart + index * oneWeekInMs,
        seasonStart + (index + 1) * oneWeekInMs).xFactionDiff

NonZero(s) == SelectSeq(s, LAMBDA x : x # 0)

DropFirst4(s) == IF Len(s) <= 4 THEN <<>> ELSE [i \in 1..(Len(s) - 4) |-> s[i + 4]]

\* the growth samples from the first n weeks of the season
SamplesOfWeeks(n) == DropFirst4(NonZero([w \in 1..n |-> WeeklyDelta(w - 1)]))

\* the weeks of the season up to the week of the last dataset
ElapsedWeeks == ToLength(lastTs - seasonStart, oneWeekInMs) + 1

\* the weeks the function covers: the whole weeks from the start date to the
\* end date or the re-timed override, 36 without either
CoveredWeeks ==
    IF hasWorkingEnd
    THEN ToLength(workingEnd - seasonStart, oneWeekInMs)
    ELSE 36

\* the forecast is what the growth samples s give
ForecastForSamples(s) ==
    /\ retained = s
    /\ isWeighted <=> Len(s) >= 4 /\ workingEnd - lastTs > oneDayInMs
    /\ isWeighted =>
          LET points == extrapolation.points
          IN points[Len(points)].score =
                JsFin(toOneDigit(
                    lastDataset.score * 10 * Len(s) * 7 * days.d
                      + weightedSumTimes10(s) * days.n,
                    10 * Len(s) * 7 * days.d))

\* C14 as stated: the growth samples are the combined weekly deltas of the
\* weeks from the start date, every week with a dataset among them, in week
\* order, without the zero deltas and then without the first 4 of the rest.
C14_SamplesOfElapsedWeeks ==
    hasForecast => ForecastForSamples(SamplesOfWeeks(ElapsedWeeks))

\* C14: the growth samples are the combined weekly deltas of the whole weeks
\* between the start date and the working end (of 36 weeks without an end date
\* and an override), in week order, without the zero deltas and then without
\* the first 4 of the rest; a dataset after the last whole week is not sampled.
C14_SamplesOfCoveredWeeks ==
    hasForecast => ForecastForSamples(SamplesOfWeeks(CoveredWeeks))

C14_Witness ==
    /\ isWeighted
    /\ \E w \in 1..CoveredWeeks : WeeklyDelta(w - 1) = 0
    /\ \E w \in 1..4 : WeeklyDelta(w - 1) # retained[1]

C14_WitnessZeroAmongFirst ==
    /\ hasForecast
    /\ retained # <<>>
    /\ \E w \in 1..4 : WeeklyDelta(w - 1) = 0

\* a dataset after the last whole week would have made the fourth sample
C14_WitnessTrailingWeek ==
    /\ isLinear
    /\ workingEnd - lastTs > oneDayInMs
    /\ ElapsedWeeks > CoveredWeeks
    /\ WeeklyDelta(ElapsedWeeks - 1) # 0
    /\ Len(SamplesOfWeeks(ElapsedWeeks)) >= 4

----------------------------------------------------------------------------
(* What the claims speak of, for calculateFactionDiffForWeek *)

diffed == pc = "diffed"
mode == season.crossFactionSupport

\* the positions of the datasets of the week, and of those with a tag
InWeek == {i \in 1..Len(data) : week.from <= data[i].ts /\ data[i].ts <= week.to}
Tagged(tag) == {i \in InWeek : data[i].faction = tag}

Earliest(bucket) == CHOOSE i \in bucket : \A j \in bucket : i <= j
Latest(bucket) == CHOOSE i \in bucket : \A j \in bucket : i >= j

\* the delta of a bucket, from its first and its last dataset
DeltaOf(bucket) ==
    IF bucket = {}
    THEN 0
    ELSE data[Latest(bucket)].score
         - (IF week.isFirstWeek /\ Earliest(bucket) = 1
            THEN 0
            ELSE data[Earliest(bucket)].score)

\* C15: with complete support the combined delta comes from the first and the
\* last dataset of the week and the horde and alliance deltas are 0; with
\* partial support the combined delta comes from the first and the last
\* untagged dataset of the week; without support the horde and the alliance
\* delta come from the first and the last dataset with that tag and the
\* combined delta is 0.
C15_BucketsByMode ==
    diffed =>
        /\ mode = "complete" =>
              /\ weekDiff.xFactionDiff = DeltaOf(InWeek)
              /\ weekDiff.hordeDiff = 0
              /\ weekDiff.allianceDiff = 0
        /\ mode = "partial" =>
              weekDiff.xFactionDiff = DeltaOf(Tagged(xFaction))
        /\ mode = "none" =>
              /\ weekDiff.hordeDiff = DeltaOf(Tagged("horde"))
              /\ weekDiff.allianceDiff = DeltaOf(Tagged("alliance"))
              /\ weekDiff.xFactionDiff = 0

\* the example of the specification, with untagged datasets in the week as well
C15_Witness ==
    /\ diffed
    /\ mode = "none"
    /\ weekDiff.hordeDiff # 0
    /\ weekDiff.allianceDiff # 0
    /\ DeltaOf(Tagged(xFaction)) # 0

C15_WitnessComplete ==
    /\ diffed
    /\ mode = "complete"
    /\ Tagged("horde") # {}
    /\ weekDiff.xFactionDiff # 0
    /\ weekDiff.xFactionDiff # DeltaOf(Tagged(xFaction))

C15_WitnessPartial ==
    /\ diffed
    /\ mode = "partial"
    /\ weekDiff.xFactionDiff # 0
    /\ weekDiff.xFactionDiff # DeltaOf(InWeek)

\* the datasets the mode gives to a bucket of the result
BucketOf(name) ==
    CASE name = "hordeDiff" ->
            IF mode = "complete" THEN {} ELSE Tagged("horde")
      [] name = "allianceDiff" ->
            IF mode = "complete" THEN {} ELSE Tagged("alliance")
      [] name = "xFactionDiff" ->
            IF mode = "complete"
            THEN InWeek
            ELSE IF mode = "partial" THEN Tagged(xFaction) ELSE {}

Buckets == {"hordeDiff", "allianceDiff", "xFactionDiff"}

\* C16: the delta of a bucket is end.score - start.score; it is end.score when
\* isFirstWeek holds and the start is the first element of the series by
\* position; it is 0 for a bucket without a dataset in the week.
C16_DeltaOfBucket ==
    diffed =>
        \A name \in Buckets :
            LET bucket == BucketOf(name)
            IN weekDiff[name] =
                  IF bucket = {}
                  THEN 0
                  ELSE IF week.isFirstWeek /\ Earliest(bucket) = 1
                       THEN data[Latest(bucket)].score
                       ELSE data[Latest(bucket)].score - data[Earliest(bucket)].score

C16_Witness ==
    /\ diffed
    /\ week.isFirstWeek
    /\ \E name \in Buckets :
          /\ BucketOf(name) # {}
          /\ Earliest(BucketOf(name)) = 1
          /\ Latest(BucketOf(name)) # 1
          /\ weekDiff[name] = data[Latest(BucketOf(name))].score

\* the start has the score of the first element but is another element
C16_WitnessSameScore ==
    /\ diffed
    /\ week.isFirstWeek
    /\ \E name \in Buckets :
          /\ BucketOf(name) # {}
          /\ Earliest(BucketOf(name)) # 1
          /\ data[Earliest(BucketOf(name))].score = data[1].score
          /\ weekDiff[name] # data[Latest(BucketOf(name))].score

C16_WitnessEmptyBucket ==
    /\ diffed
    /\ mode = "partial"
    /\ InWeek # {}
    /\ Tagged(xFaction) = {}
    /\ weekDiff.xFactionDiff = 0

----------------------------------------------------------------------------
\* the clock passes the end date between the two reads of calculateZoom
ClockPassesEndInZoom ==
    /\ seasonEnd # NULL
    /\ zoomReads[1] < seasonEnd
    /\ seasonEnd < zoomReads[2]

\* the end date is known and lies n days after now with lo <= n < hi, now
\* being the clock calculateZoom reads for the days
EndWithinDays(lo, hi) ==
    /\ seasonEnd # NULL
    /\ seasonEnd > zoomReads[2]
    /\ lo * oneDayInMs <= seasonEnd - zoomReads[2]
    /\ seasonEnd - zoomReads[2] < hi * oneDayInMs

\* C17: the offset of calculateZoom is 8/7 weeks when the end date is less than
\* a day ahead, 3 weeks with a forecast and 2 without when it is 1 to less than
\* 7 days ahead, and 6 weeks with a forecast and 4 without otherwise, also when
\* the end date is unknown or has passed; now is one instant, the end date does
\* not fall between the two reads of the clock.
C17_ZoomOffset ==
    evaluated /\ ~ClockPassesEndInZoom =>
        zoom.offset =
            IF EndWithinDays(0, 1)
            THEN (8 * oneWeekInMs) \div 7
            ELSE IF EndWithinDays(1, 7)
                 THEN (IF forecast.type # "None" THEN 3 ELSE 2) * oneWeekInMs
                 ELSE (IF forecast.type # "None" THEN 6 ELSE 4) * oneWeekInMs

C17_Witness ==
    /\ evaluated
    /\ EndWithinDays(1, 7)
    /\ forecast.type # "None"
    /\ zoomReads[1] < zoomReads[2]
    /\ zoom.offset = 3 * oneWeekInMs

C17_WitnessLastDay ==
    /\ evaluated
    /\ EndWithinDays(0, 1)
    /\ forecast.type = "None"

C17_WitnessLastDayForecast ==
    /\ evaluated
    /\ EndWithinDays(0, 1)
    /\ forecast.type # "None"

C17_WitnessWeekNoForecast ==
    /\ evaluated
    /\ EndWithinDays(1, 7)
    /\ forecast.type = "None"

C17_WitnessEndPassed ==
    /\ evaluated
    /\ seasonEnd # NULL
    /\ seasonEnd <= zoomReads[1]
    /\ zoom.offset = 4 * oneWeekInMs

C17_WitnessEndUnknown ==
    /\ evaluated
    /\ seasonEnd = NULL
    /\ forecast.type # "None"
    /\ zoom.offset = 6 * oneWeekInMs

C17_WitnessSevenDays ==
    /\ evaluated
    /\ seasonEnd # NULL
    /\ seasonEnd - zoomReads[2] >= 7 * oneDayInMs

\* the datasets before the instant e - offset, e a fractional number
Before(e, offset) ==
    {i \in 1..Len(data) : data[i].ts * e.d < e.n - offset * e.d}

\* C18: calculateZoom returns (zoomStart, zoomEnd); zoomEnd is the last
\* timestamp of the forecast, of the series without a forecast; zoomStart is the
\* timestamp of the latest dataset strictly before zoomEnd - offset, 0 when
\* there is none.
C18_ZoomWindow ==
    evaluated =>
        /\ RatEq(zoom.end,
                 IF forecast.type # "None" THEN forecastEnd ELSE Rat(lastTs, 1))
        /\ LET before == Before(zoom.end, zoom.offset)
           IN IF before = {}
              THEN zoom.start = 0
              ELSE /\ \E i \in before : zoom.start = data[i].ts
                   /\ \A i \in before : data[i].ts <= zoom.start

\* a dataset lies at zoomEnd - offset and is not taken
C18_Witness ==
    /\ evaluated
    /\ forecast.type # "None"
    /\ zoom.start # 0
    /\ \E i \in 1..Len(data) :
          /\ data[i].ts * zoom.end.d = zoom.end.n - zoom.offset * zoom.end.d
          /\ zoom.start < data[i].ts

C18_WitnessNoForecast ==
    /\ evaluated
    /\ forecast.type = "None"
    /\ zoom.start # 0
    /\ RatEq(zoom.end, Rat(lastTs, 1))

C18_WitnessNoneQualifies ==
    /\ evaluated
    /\ Len(data) > 1
    /\ zoom.start = 0

\* C19: for a region without datasets, or whose end date has passed when the
\* loader reads the clock, the forecast and the zoom of the region stay null
\* and neither calculateExtrapolation nor calculateZoom is evaluated.
C19_SkippedRegion ==
    finished /\ (Len(data) = 0 \/ (seasonEnd # NULL /\ seasonEnd <= now)) =>
        /\ forecast = None
        /\ zoom = None
        /\ nowReads = <<>>
        /\ zoomReads = <<>>
        /\ extrapolation = Pending

C19_Witness ==
    /\ finished
    /\ Len(data) > 0
    /\ seasonEnd = now
    /\ seasonStart # NULL
    /\ Qualifying # {}
    /\ forecast = None
    /\ zoom = None

C19_WitnessEmpty ==
    /\ finished
    /\ Len(data) = 0
    /\ seasonEnd = NULL
    /\ zoom = None

\* the query value is missing, no date, or a date before now, now being the
\* clock determineExtrapolationEnd reads
InvalidOverride ==
    \/ maybeDate.text \in {"absent", "empty", "no date"}
    \/ maybeDate.text = "date" /\ maybeDate.ts < endRead

\* C20: a query value that is missing, no date or a date before now counts as
\* no override: determineExtrapolationEnd returns null or NaN, no exception, and
\* the forecast is the forecast without an override.
C20_InvalidOverrideAbsent ==
    pc # "loader" /\ InvalidOverride =>
        /\ endOverride \in {NULL, NaN}
        /\ endOverride = NaN <=> maybeDate.text = "no date"
        /\ evaluated => forecast = WithOverride(NULL)

C20_Witness ==
    /\ evaluated
    /\ maybeDate.text = "no date"
    /\ seasonEnd = NULL
    /\ forecast.type = "DenseCurve"

C20_WitnessEarlier ==
    /\ evaluated
    /\ maybeDate.text = "date"
    /\ maybeDate.ts < endRead
    /\ seasonEnd = NULL
    /\ forecast.type = "DenseCurve"

----------------------------------------------------------------------------
\* the positions of the datasets without a faction tag
Untagged == {i \in 1..Len(data) : data[i].faction = xFaction}

\* the forecast starts at the timestamp and the score of the dataset at i
ForecastStartsAt(i) ==
    IF extrapolation.type = "Segment"
    THEN extrapolation.from = i
    ELSE extrapolation.points[1]
            = [ts |-> Rat(data[i].ts, 1), score |-> JsFin(data[i].score)]

\* C21: with partial cross-faction support the forecast starts at an untagged
\* dataset and the dataset the growth is measured from is untagged, also when
\* datasets with a faction tag lie in between.
C21_UntaggedBasis ==
    hasForecast /\ mode = "partial" /\ Untagged # {} =>
        /\ \E i \in Untagged : ForecastStartsAt(i)
        /\ firstRelevantDataset \in Untagged

----------------------------------------------------------------------------
(* C22 *)

\* toOneDigit applied once more to a score the function emitted; NaN and
\* +-Infinity print and parse as themselves
ReRounded(x) == IF x.fin THEN JsFin(toOneDigit(x.v, 1)) ELSE x

\* the scores of a forecast that were computed: every point of a curve after
\* its first, and the end of a segment
ProjectedScores ==
    IF extrapolation.type = "Segment"
    THEN {extrapolation.to.score}
    ELSE {extrapolation.points[i].score : i \in 2..Len(extrapolation.points)}

\* every score of a forecast: with the first point of a curve, and with the
\* dataset a segment starts from
EmittedScores ==
    ProjectedScores
    \cup IF extrapolation.type = "Segment"
         THEN {JsFin(data[extrapolation.from].score)}
         ELSE {extrapolation.points[1].score}

\* C22 as stated: rounding any score of a forecast to one decimal digit once
\* more leaves it unchanged, the first point of a curve and both ends of a
\* segment included.
C22_AllScoresRounded ==
    hasForecast => \A x \in EmittedScores : ReRounded(x) = x

\* C22: rounding any projected score of a forecast (every point of a curve
\* after its first, and the `to` end of a segment) to one decimal digit once
\* more leaves it unchanged; the first point and the `from` end carry the score
\* of the last dataset as it is stored.
C22_ProjectedScoresRounded ==
    hasForecast =>
        /\ \A x \in ProjectedScores : ReRounded(x) = x
        /\ \A x \in EmittedScores \ ProjectedScores : x = JsFin(lastDataset.score)

\* a curve of several projected scores that starts at a score of two decimal
\* digits, one of the projected scores lying above it
C22_Witness ==
    /\ isDenseCurve
    /\ Len(extrapolation.points) >= 4
    /\ lastDataset.score % scoreUnit # 0
    /\ \E x \in ProjectedScores : x.fin /\ x.v > lastDataset.score

----------------------------------------------------------------------------
(* C23 *)

\* how many weeks the retained diff at (0-based) index lies back
PositionsBack(index) == Len(retained) - index - 1

\* the weight the diff at index enters the weighted sum with, times 10: what
\* the sum gains when that diff is greater by one
AppliedWeightTimes10(index) ==
    weightedSumTimes10([retained EXCEPT ![index + 1] = @ + 1])
        - weightedSumTimes10(retained)

\* C23: in the weighted branch every retained week has a weight from 0.1 to 1,
\* the most recent week has weight 1, and a week 10 or more positions back has
\* weight 0.1.
C23_Weights ==
    isWeighted =>
        \A index \in 0..(Len(retained) - 1) :
            /\ AppliedWeightTimes10(index) \in 1..10
            /\ PositionsBack(index) = 0 => AppliedWeightTimes10(index) = 10
            /\ PositionsBack(index) >= 10 => AppliedWeightTimes10(index) = 1

\* the weights the callback of reduce computes, from index 1 on, are as C23 says
C23_ComputedWeights ==
    isWeighted =>
        \A index \in 1..(Len(retained) - 1) :
            /\ AppliedWeightTimes10(index) = weightTimes10(Len(retained), index)
            /\ AppliedWeightTimes10(index) \in 1..10
            /\ PositionsBack(index) = 0 => AppliedWeightTimes10(index) = 10
            /\ PositionsBack(index) >= 10 => AppliedWeightTimes10(index) = 1

\* a weighted forecast from twelve retained weeks
C23_Reached == isWeighted /\ Len(retained) >= 12

----------------------------------------------------------------------------
(* C24 *)

----------------------------------------------------------------------------
(* C25 *)

\* what the task of region r leaves in the response when it runs alone, with
\* the clock reads the task had: reads is empty when the task stopped early
Alone(r) ==
    LET d == regionData[r]
        reads == tasks[r].reads
    IN IF Len(d) = 0 \/ seasonEnded(season.endDates[r], now)
       THEN [data |-> d, extrapolation |-> None, initialZoom |-> None]
       ELSE LET ex == calculateExtrapolation(season, r, d, endOverride, tz,
                                             reads[1], reads[2], reads[3])
            IN [data |-> d, extrapolation |-> ex,
                initialZoom |-> calculateZoom(season, r, d, ex, reads[4], reads[5])]

\* what the response holds for region r
Of(r) ==
    [data |-> enhancedSeason.data[r],
     extrapolation |-> enhancedSeason.extrapolation[r],
     initialZoom |-> enhancedSeason.initialZoom[r]]

\* C25: in whatever order the four data loads end, the response holds for a
\* region whose task has not run what the loader put there, and for a region
\* whose task has run what that task alone leaves there; the response is
\* built only when all four tasks have finished, from what they left.
C25_TasksDoNotInterfere ==
    /\ \A r \in Regions :
          /\ tasks[r].pc = "pending" =>
                Of(r) = [data |-> <<>>, extrapolation |-> None, initialZoom |-> None]
          /\ tasks[r].pc = "finished" => Of(r) = Alone(r)
    /\ response # Pending =>
          /\ \A r \in Regions : tasks[r].pc = "finished"
          /\ response.body = enhancedSeason
          /\ \A r \in Regions : response.body.data[r] = regionData[r]

\* the response is built after the task of tw ran before the task of eu, at
\* another time, both with a forecast
C25_Witness ==
    /\ response # Pending
    /\ tasks["tw"].reads # <<>>
    /\ tasks["eu"].reads # <<>>
    /\ tasks["tw"].reads[5] < tasks["eu"].reads[1]
    /\ enhancedSeason.extrapolation["eu"].type # "None"
    /\ enhancedSeason.extrapolation["tw"].type # "None"
    /\ enhancedSeason.initialZoom["kr"] = None
    /\ enhancedSeason.data["kr"] # <<>>

----------------------------------------------------------------------------
(* C26 *)

\* every read of the clock by the two functions gave the same value
FixedNow ==
    /\ nowReads = <<nowReads[1], nowReads[1], nowReads[1]>>
    /\ zoomReads = <<nowReads[1], nowReads[1]>>

----------------------------------------------------------------------------
(* C27 *)

\* C27: however the clock advances between the reads of the loader, of
\* calculateExtrapolation and of calculateZoom, a forecast for a region with a
\* known end date is made for (endDate - now) / 1 day and never for the 21
\* days of a season without end date, and a zoom window returned without a
\* forecast belongs to a season that has not ended.
C27_NoDefaultsWithEndDate ==
    evaluated /\ seasonEnd # NULL =>
        /\ forecast.type # "None" =>
              /\ seasonEnd > nowReads[3]
              /\ RatEq(days, Rat(seasonEnd - nowReads[3], oneDayInMs))
        /\ forecast.type = "None" => seasonEnd > zoomReads[1]

\* the forecast of a region with a known end date that is made for the 21 days
\* of a season without end date: the end date passed between the reads of
\* lines 107 and 125
C27_DefaultDaysWithEndDate ==
    /\ evaluated
    /\ seasonEnd # NULL
    /\ forecast.type # "None"
    /\ nowReads[1] < seasonEnd
    /\ seasonEnd <= nowReads[2]
    /\ days = Rat(21, 1)

----------------------------------------------------------------------------
(* C28 *)

\* the weekly diffs the function would keep for the same series in a season
\* with complete cross-faction support
retainedIfComplete ==
    passedWeeksDiff(data, [season EXCEPT !.crossFactionSupport = "complete"], region,
                    resolveSeasonEnding(season, region, endOverride, tz))

\* C28: without cross-faction support the combined delta of every week is 0,
\* no weekly diff is retained and every forecast comes from the linear branch.
C28_NoneIsLinear ==
    hasForecast /\ mode = "none" =>
        /\ \A index \in 0..35 : WeeklyDelta(index) = 0
        /\ retained = <<>>
        /\ isLinear

\* a forecast without cross-faction support for a series that gives the
\* weighted branch with complete support, and whose datasets carry faction tags
C28_Witness ==
    /\ hasForecast
    /\ mode = "none"
    /\ Len(retainedIfComplete) >= 4
    /\ extrapolationEndTs - lastTs > oneDayInMs
    /\ \E i \in 1..Len(data) : data[i].faction = "horde"

----------------------------------------------------------------------------
(* C29 *)

\* the positions of the datasets at the end of the week, which is the start
\* of the next week
AtBoundary == {i \in 1..Len(data) : data[i].ts = week.to}

\* the positions of the datasets of the next week
InNextWeek ==
    {i \in 1..Len(data) : week.to <= data[i].ts /\ data[i].ts <= week.to + oneWeekInMs}

\* what calculateFactionDiffForWeek returns for the next week
nextWeekDiff ==
    calculateFactionDiffForWeek(data, mode, FALSE, week.to, week.to + oneWeekInMs)

\* C29: a dataset at the boundary of two consecutive weeks belongs to both:
\* with complete support the delta of the earlier week is measured up to it and
\* the delta of the later week is measured from it.
C29_BoundaryInBothWeeks ==
    diffed /\ mode = "complete" =>
        \A b \in AtBoundary :
            /\ b \in InWeek
            /\ weekDiff.xFactionDiff
                  = data[b].score - (IF week.isFirstWeek /\ Earliest(InWeek) = 1
                                     THEN 0
                                     ELSE data[Earliest(InWeek)].score)
            /\ nextWeekDiff.xFactionDiff
                  = data[Latest(InNextWeek)].score - data[b].score

\* a dataset at the boundary, with earlier datasets in the earlier week and
\* later datasets in the later week, and a delta in both weeks
C29_Witness ==
    /\ diffed
    /\ mode = "complete"
    /\ \E b \in AtBoundary :
          /\ Earliest(InWeek) < b
          /\ Latest(InNextWeek) > b
    /\ weekDiff.xFactionDiff # 0
    /\ nextWeekDiff.xFactionDiff # 0

----------------------------------------------------------------------------
(* C30 *)

\* the values of the history that are not 0, by the field of the type
NonZeroValues(type) ==
    {v \in {IF type = "score" THEN history[i].customScore ELSE history[i].customRank :
               i \in 1..Len(history)} : v # 0}

\* C30: calculateOverallMinMax returns null exactly when the history has no
\* value other than 0, and otherwise a min and a max between which every
\* non-zero value lies, in whatever order the entries come.
C30_MinMaxBounds ==
    pc = "rendered" =>
        \A type \in {"score", "rank"} :
            /\ thresholds[type] = None <=> NonZeroValues(type) = {}
            /\ thresholds[type] # None =>
                  \A v \in NonZeroValues(type) :
                      thresholds[type].min <= v /\ v <= thresholds[type].max

\* null for a history with non-zero scores: the scores fall from entry to entry
C30_NullThoughNonZero ==
    /\ pc = "rendered"
    /\ NonZeroValues("score") # {}
    /\ thresholds["score"] = None

\* a score above the max: the greatest score comes first
C30_ValueAboveMax ==
    /\ pc = "rendered"
    /\ thresholds["score"] # None
    /\ \E v \in NonZeroValues("score") : v > thresholds["score"].max

====
